---- MODULE Spec2Model ----
(***************************************************************************)
(* grav: per-tick simulation pipeline (src/src/main.rs, src/src/ecs).      *)
(*                                                                         *)
(* Numbers.  An f64 is modelled as an exact rational <<n, d>> in lowest    *)
(* terms with d > 0, extended by the IEEE special values <<1,0>> (+inf),   *)
(* <<-1,0>> (-inf) and <<0,0>> (NaN).  Rounding and the sign of zero are   *)
(* not modelled.                                                           *)
(*                                                                         *)
(* Vectors.  math.rs defines Vector(f64, f64, f64); every operator acts    *)
(* per component and magnitude() is the euclidean norm.  The model keeps   *)
(* one component, for which the norm sqrt(x*x) is the absolute value.      *)
(*                                                                         *)
(* Entities.  A specs Entity is (index, generation); the model uses one    *)
(* never reused number per entity, allocated in increasing order, and      *)
(* joins iterate in increasing entity order.                               *)
(***************************************************************************)
EXTENDS Integers, Sequences, FiniteSets, TLC

\* ------------------------------------------------------------------ bounds
\* number of ticks of the step loop (the `steps` argument)
MaxSteps == 2

\* ------------------------------------------------------------------ f64
Abs(n) == IF n < 0 THEN -n ELSE n

Sgn(n) == IF n > 0 THEN 1 ELSE IF n < 0 THEN -1 ELSE 0

RECURSIVE Gcd(_, _)
Gcd(a, b) == IF b = 0 THEN a ELSE Gcd(b, a % b)

Flt(n, d) ==
  IF d = 0 THEN <<Sgn(n), 0>>
  ELSE LET g == Gcd(Abs(n), Abs(d))
           s == Sgn(d)
       IN <<(s * n) \div g, (s * d) \div g>>

NaN == <<0, 0>>
Inf == <<1, 0>>
Zero == <<0, 1>>
I(n) == <<n, 1>>

IsNaN(x) == x = NaN
IsFinite(x) == x[2] # 0

FNeg(x) == <<-x[1], x[2]>>

FAdd(x, y) ==
  IF IsNaN(x) \/ IsNaN(y) THEN NaN
  ELSE IF x[2] = 0 /\ y[2] = 0 THEN (IF x = y THEN x ELSE NaN)
  ELSE IF x[2] = 0 THEN x
  ELSE IF y[2] = 0 THEN y
  ELSE LET g == Gcd(x[2], y[2])
       IN Flt(x[1] * (y[2] \div g) + y[1] * (x[2] \div g), (x[2] \div g) * y[2])

FSub(x, y) == FAdd(x, FNeg(y))

FMul(x, y) ==
  IF IsNaN(x) \/ IsNaN(y) THEN NaN
  ELSE IF x[1] = 0 \/ y[1] = 0 \/ x[2] = 0 \/ y[2] = 0
  THEN Flt(Sgn(x[1]) * Sgn(y[1]), x[2] * y[2])
  ELSE LET g == Gcd(Abs(x[1]), y[2])
           h == Gcd(Abs(y[1]), x[2])
       IN Flt((x[1] \div g) * (y[1] \div h), (x[2] \div h) * (y[2] \div g))

\* 1 / y
Recip(y) == IF y[1] < 0 THEN <<-y[2], -y[1]>> ELSE <<y[2], y[1]>>

FDiv(x, y) == IF IsNaN(x) \/ IsNaN(y) THEN NaN ELSE FMul(x, Recip(y))

FLt(x, y) ==
  /\ ~IsNaN(x)
  /\ ~IsNaN(y)
  /\ IF x[2] = 0 /\ y[2] = 0 THEN x[1] < y[1]
     ELSE IF x[2] = 0 \/ y[2] = 0 THEN x[1] * y[2] < y[1] * x[2]
     ELSE LET g == Gcd(x[2], y[2])
          IN x[1] * (y[2] \div g) < y[1] * (x[2] \div g)

FGt(x, y) == FLt(y, x)

FLe(x, y) == ~IsNaN(x) /\ ~IsNaN(y) /\ (x = y \/ FLt(x, y))

FGe(x, y) == FLe(y, x)

FAbs(x) == <<Abs(x[1]), x[2]>>

FFloor(x) == IF x[2] = 0 THEN x ELSE <<x[1] \div x[2], 1>>

FCeil(x) == FNeg(FFloor(FNeg(x)))

\* ------------------------------------------------------------------ Vector
VecDefault == Zero

Magnitude(v) == FAbs(v)

VecAdd(a, b) == FAdd(a, b)

VecSub(a, b) == FSub(a, b)

\* the partner of a pair receives the force itself
VecNegForgotten(a) == a

VecNeg(a) == FNeg(a)

VecMulS(a, s) == FMul(a, s)

VecDivS(a, s) == FDiv(a, s)

VecAddS(a, s) == FAdd(a, s)

VecSubS(a, s) == FSub(a, s)

Direction(v) ==
  LET mag == Magnitude(v)
  IN IF mag # Zero THEN VecDivS(v, mag) ELSE VecDefault


VecSum(vals) ==
  LET RECURSIVE Acc(_, _)
      Acc(k, result) == IF k > Len(vals) THEN result
                        ELSE Acc(k + 1, VecAdd(result, vals[k]))
  IN Acc(1, VecDefault)

\* ------------------------------------------------------------------ helpers
\* the element of a singleton set: a loop binds the result of one iteration
\* with it before it enters the next
Only(S) == CHOOSE x \in S : TRUE

Put(f, k, v) == [x \in DOMAIN f \cup {k} |-> IF x = k THEN v ELSE f[x]]

Remove(f, k) == [x \in DOMAIN f \ {k} |-> f[x]]

Min(S) == CHOOSE x \in S : \A y \in S : x <= y

\* the elements of a set of entities in join (increasing) order
RECURSIVE Ordered(_)
Ordered(S) == IF S = {} THEN <<>> ELSE <<Min(S)>> \o Ordered(S \ {Min(S)})

Contains(seq, x) == \E k \in 1..Len(seq) : seq[k] = x

EmptyMap == [k \in {} |-> VecDefault]

\* ------------------------------------------------------------------ shapes
Point == [kind |-> "Point", r |-> Zero]
Sphere(r) == [kind |-> "Sphere", r |-> r]
Cuboid == [kind |-> "Cuboid", r |-> Zero]

\* ------------------------------------------------------------------ dispatcher
Registration ==
  << "clear_collisions", "clear_forces", "write_output", "update_lifetimes",
     "handle_electrostatics", "handle_gravity", "handle_forces",
     "handle_dynamics", "collision_detection", "handle_collisions",
     "handle_splitting" >>

Systems == {Registration[k] : k \in 1..Len(Registration)}

\* handle_dynamics registered without its dependency on handle_forces
DepsWithoutForces(s) ==
  CASE s = "handle_electrostatics" -> {"clear_forces"}
    [] s = "handle_gravity" -> {"clear_forces"}
    [] s = "handle_forces" -> {"handle_electrostatics", "handle_gravity"}
    [] s = "collision_detection" -> {"clear_collisions", "handle_dynamics"}
    [] s = "handle_collisions" -> {"collision_detection"}
    [] s = "handle_splitting" -> {"handle_collisions", "update_lifetimes"}
    [] OTHER -> {}

Deps(s) ==
  CASE s = "clear_collisions" -> {}
    [] s = "clear_forces" -> {}
    [] s = "write_output" -> {}
    [] s = "update_lifetimes" -> {}
    [] s = "handle_electrostatics" -> {"clear_forces"}
    [] s = "handle_gravity" -> {"clear_forces"}
    [] s = "handle_forces" -> {"handle_electrostatics", "handle_gravity"}
    [] s = "handle_dynamics" -> {"handle_forces"}
    [] s = "collision_detection" -> {"clear_collisions", "handle_dynamics"}
    [] s = "handle_collisions" -> {"collision_detection"}
    [] s = "handle_splitting" -> {"handle_collisions", "update_lifetimes"}

\* the SystemData of each system: resources and storages fetched read-only
Reads(s) ==
  CASE s = "clear_collisions" -> {}
    [] s = "clear_forces" -> {}
    [] s = "write_output" -> {"OutputFile", "Charge", "Dynamics", "Mass"}
    [] s = "update_lifetimes" -> {}
    [] s = "handle_electrostatics" ->
         {"Entities", "ElectrostaticConstant", "Charge", "Dynamics"}
    [] s = "handle_gravity" ->
         {"Entities", "GravitationalConstant", "Dynamics", "Mass"}
    [] s = "handle_forces" -> {"Forces", "Mass"}
    [] s = "handle_dynamics" -> {"DeltaTime", "DynamicsLimits"}
    [] s = "collision_detection" ->
         {"Entities", "CollisionLimits", "Dynamics", "Physicality"}
    [] s = "handle_collisions" -> {"Entities", "LazyUpdate"}
    [] s = "handle_splitting" ->
         {"Entities", "LazyUpdate", "SplittingSettings", "Lifetime"}

\* the SystemData of each system: storages fetched for writing
Writes(s) ==
  CASE s = "clear_collisions" -> {"Collisions"}
    [] s = "clear_forces" -> {"Forces"}
    [] s = "write_output" -> {}
    [] s = "update_lifetimes" -> {"Lifetime"}
    [] s = "handle_electrostatics" -> {"Forces"}
    [] s = "handle_gravity" -> {"Forces"}
    [] s = "handle_forces" -> {"Dynamics"}
    [] s = "handle_dynamics" -> {"Dynamics"}
    [] s = "collision_detection" -> {"Collisions"}
    [] s = "handle_collisions" ->
         {"Charge", "Collisions", "Dynamics", "Mass", "Physicality"}
    [] s = "handle_splitting" -> {"Charge", "Dynamics", "Mass", "Physicality"}

Conflict(s, t) ==
  \/ Writes(s) \cap (Reads(t) \cup Writes(t)) # {}
  \/ Reads(s) \cap Writes(t) # {}

InGroup(group, s) == \E k \in 1..Len(group) : group[k] = s

InStage(stage, s) == \E g \in 1..Len(stage) : InGroup(stage[g], s)

\* DispatcherBuilder::with: the system goes into the first stage after the
\* last stage holding one of its dependencies in which it conflicts with at
\* most one group; a conflicting group runs its systems one after another.
AddSystem(stages, s) ==
  LET depStages == {i \in 1..Len(stages) : \E d \in Deps(s) : InStage(stages[i], d)}
      start == IF depStages = {} THEN 1
               ELSE (CHOOSE i \in depStages : \A j \in depStages : j <= i) + 1
      clash(i) == {g \in 1..Len(stages[i]) :
                     \E k \in 1..Len(stages[i][g]) : Conflict(s, stages[i][g][k])}
      fits == {i \in start..Len(stages) : Cardinality(clash(i)) <= 1}
  IN IF fits = {} THEN Append(stages, << <<s>> >>)
     ELSE LET i == Min(fits)
          IN IF clash(i) = {}
             THEN [stages EXCEPT ![i] = Append(@, <<s>>)]
             ELSE LET g == CHOOSE x \in clash(i) : TRUE
                  IN [stages EXCEPT ![i][g] = Append(@, s)]

RECURSIVE Build(_)
Build(n) == IF n = 0 THEN <<>> ELSE AddSystem(Build(n - 1), Registration[n])

Stages == Build(Len(Registration))

\* for each system, the systems that must have run before it starts: those of
\* the earlier stages and those ahead of it in its own group
Dispatcher ==
  LET stageOf(s) == CHOOSE i \in 1..Len(Stages) : InStage(Stages[i], s)
      ahead(s) ==
        LET st == Stages[stageOf(s)]
            g == CHOOSE x \in 1..Len(st) : InGroup(st[x], s)
            pos == CHOOSE k \in 1..Len(st[g]) : st[g][k] = s
        IN {st[g][k] : k \in 1..(pos - 1)}
  IN [s \in Systems |->
        {t \in Systems : stageOf(t) < stageOf(s)} \cup ahead(s)]


\* ------------------------------------------------------------------ resources
\* the resources of main.rs; the splitting lifetimes are scaled to the run
\* length, and the force constants can be switched off
Resources(g, k, maxLife, minLife) ==
  [ GravitationalConstant |-> g,
    ElectrostaticConstant |-> k,
    DeltaTime |-> Flt(1, 2),
    maximum_acceleration |-> I(5),
    maximum_position |-> I(100),
    maximum_velocity |-> I(10),
    minimum_acceleration |-> Zero,
    minimum_position |-> Zero,
    minimum_velocity |-> Zero,
    maximum_detection_theshold |-> I(100),
    minimum_detection_theshold |-> I(1),
    maximum_lifetime |-> maxLife,
    minimum_lifetime |-> minLife,
    separation_multiplier |-> I(1),
    velocity_multiplier |-> I(1) ]

\* <<maximum_lifetime, minimum_lifetime>>, scaled down from the 400 and 100 of
\* main.rs (1000 and 100 in the Default of SplittingSettings): the minimum is
\* below the maximum
Lifetimes == {<<1, 0>>, <<3, 1>>, <<3, 0>>}

\* DynamicsLimits with its three minimum magnitudes set to lo
WithMinimum(r, lo) ==
  [r EXCEPT !.minimum_acceleration = lo,
            !.minimum_position = lo,
            !.minimum_velocity = lo]

\* the force constants of main.rs or none, each lifetime setting, and the
\* minimum magnitudes of main.rs (zero) or a positive one
Configs ==
  {Resources(c[1], c[2], l[1], l[2]) :
     c \in {<<I(1), Flt(1, 2)>>, <<Zero, Zero>>}, l \in Lifetimes}
  \cup {WithMinimum(Resources(c[1], c[2], 3, 1), I(1)) :
          c \in {<<I(1), Flt(1, 2)>>, <<Zero, Zero>>}}

\* one seeded entity (helper::populate_entities gives every entity all seven
\* components, empty Collisions and Forces, and Lifetime 0)
Seed(q, m, p, v, shape) ==
  [charge |-> q, mass |-> m, position |-> p, velocity |-> v, shape |-> shape]

\* populations whose bodies are alone, coincide, merge in the first tick or
\* keep small fractions
Compact ==
  { << Seed(Zero, I(1), I(2), I(1), Sphere(I(1))) >>,
    << Seed(I(3), I(45), I(0), I(-1), Sphere(I(1))) >>,
    << Seed(I(-1), I(-20), I(1), Zero, Point) >>,
    << Seed(I(1), I(1), I(0), Zero, Sphere(I(1))),
       Seed(I(-1), I(1), Flt(3, 2), Zero, Sphere(I(1))) >>,
    << Seed(Zero, I(1), I(1), Zero, Sphere(I(1))),
       Seed(I(1), I(3), I(1), Zero, Sphere(I(1))) >>,
    << Seed(I(1), I(2), I(0), Zero, Point),
       Seed(I(1), I(1), I(2), Zero, Point) >>,
    << Seed(Zero, I(1), I(0), Zero, Sphere(I(1))),
       Seed(I(-1), I(2), I(2), Zero, Sphere(I(1))),
       Seed(I(1), I(1), I(4), Zero, Sphere(I(1))) >> }

\* populations whose bodies stay apart
Spread ==
  { << Seed(I(1), I(2), I(0), Zero, Sphere(I(1))),
       Seed(I(1), I(1), I(5), Zero, Sphere(I(1))) >>,
    << Seed(I(-1), I(20), I(0), Zero, Sphere(I(2))),
       Seed(I(2), I(1), I(8), I(1), Point) >>,
    << Seed(I(1), I(1), I(0), Zero, Sphere(I(1))),
       Seed(I(1), I(1), I(4), Zero, Cuboid),
       Seed(I(-2), I(12), I(9), I(-1), Sphere(I(1))) >> }

\* populations of two bodies at rest inside the minimum detection threshold,
\* between the thresholds and beyond the maximum one, of every pair of shapes
\* that the detector tells apart
Close ==
  { << Seed(I(1), I(1), I(0), Zero, Point),
       Seed(I(-1), I(1), Flt(1, 2), Zero, Point) >>,
    << Seed(Zero, I(1), I(0), Zero, Cuboid),
       Seed(I(1), I(1), Flt(1, 2), Zero, Cuboid) >>,
    << Seed(I(1), I(1), I(0), Zero, Sphere(I(2))),
       Seed(Zero, I(1), Flt(3, 2), Zero, Point) >>,
    << Seed(I(1), I(1), I(0), Zero, Point),
       Seed(Zero, I(1), Flt(3, 2), Zero, Sphere(I(2))) >>,
    << Seed(I(1), I(1), I(0), Zero, Cuboid),
       Seed(Zero, I(1), Flt(3, 2), Zero, Sphere(I(2))) >>,
    << Seed(I(1), I(1), I(-60), Zero, Sphere(I(80))),
       Seed(I(-1), I(1), I(60), Zero, Sphere(I(80))) >> }

\* populations with a body that crosses maximum_position in the first tick:
\* a fast one, a slow one on the other side, and a slow one that a heavy
\* neighbour pulls back
Edge ==
  { << Seed(Zero, I(1), I(98), I(10), Sphere(I(1))) >>,
    << Seed(I(1), I(1), I(-100), I(-1), Point) >>,
    << Seed(Zero, I(1), I(100), I(1), Sphere(I(1))),
       Seed(Zero, I(100), I(90), Zero, Sphere(I(1))) >> }

Populations == Compact \cup Spread \cup Close \cup Edge

\* the number of ticks (the `steps` argument).  With a force constant switched
\* on, the exact fractions of the inverse square law outgrow the integers
\* after two ticks, and after one tick for bodies that stay apart.
Steps(cfg, pop) ==
  IF cfg.GravitationalConstant = Zero /\ cfg.ElectrostaticConstant = Zero
  THEN MaxSteps
  ELSE IF pop \in Compact THEN Min({MaxSteps, 2}) ELSE 1

\* ------------------------------------------------------------------ state
VARIABLES
  res,          \* the resources inserted into the world
  dispatcher,   \* the dispatcher built from the registered systems
  steps,        \* the number of ticks to run
  step,         \* the loop variable of the step loop
  done,         \* the systems that have run in the current dispatch
  alive,        \* EntitiesRes: the entities alive since the last maintain
  raised,       \* EntitiesRes: the entities created since the last maintain
  killed,       \* EntitiesRes: the entities deleted since the last maintain
  nextId,       \* the next entity to allocate
  charge, collisions, dynamics, forces, lifetime, mass, physicality,
                \* the component storages, each a map from entity to value
  lazy,         \* LazyUpdate: the queued component inserts
  output,       \* the records appended to the output file
  computed,     \* history: the (kind, i, j) computed directly in this tick
  created,      \* history: the origin of each entity created in this tick
  collided,     \* history: the Collisions storage as handle_collisions found it
  maintained,   \* history: the number of maintain calls so far
  aborted       \* an `expect` on a delete has panicked and ended the process

vars == << res, dispatcher, steps, step, done, alive, raised, killed, nextId, charge, collisions,
           dynamics, forces, lifetime, mass, physicality, lazy, output,
           computed, created, collided, maintained, aborted >>

cfgv == << res, dispatcher, steps >>

ents == << alive, raised, killed, nextId, aborted >>

hist == << computed, created, collided, maintained >>

Init ==
  \E cfg \in Configs, pop \in Populations :
    LET E == 1..Len(pop)
    IN /\ res = cfg
       /\ dispatcher = Dispatcher
       /\ steps = Steps(cfg, pop)
       /\ step = 1
       /\ done = {}
       /\ alive = E
       /\ raised = {}
       /\ killed = {}
       /\ nextId = Len(pop) + 1
       /\ charge = [e \in E |-> pop[e].charge]
       /\ collisions = [e \in E |-> <<>>]
       /\ dynamics = [e \in E |-> [acceleration |-> VecDefault,
                                   position |-> pop[e].position,
                                   velocity |-> pop[e].velocity]]
       /\ forces = [e \in E |-> EmptyMap]
       /\ lifetime = [e \in E |-> 0]
       /\ mass = [e \in E |-> pop[e].mass]
       /\ physicality = [e \in E |-> [collisions_enabled |-> TRUE,
                                      shape |-> pop[e].shape]]
       /\ lazy = <<>>
       /\ output = <<>>
       /\ computed = <<>>
       /\ created = <<>>
       /\ collided = <<>>
       /\ maintained = 0
       /\ aborted = FALSE

\* dispatcher.dispatch: a system runs once every earlier stage has finished
\* and the systems ahead of it in its own group have run
CanRun(s) ==
  /\ ~aborted
  /\ step <= steps
  /\ s \notin done
  /\ dispatcher[s] \subseteq done

\* a deleted entity leaves the joins at once
EntitiesNotKilled == (alive \cup raised) \ killed

\* (&*entities).join(): the alive and the newly raised entities
Entities == alive \cup raised

\* ------------------------------------------------------------------ systems
ClearCollisions ==
  /\ CanRun("clear_collisions")
  /\ collisions' = [e \in DOMAIN collisions |-> <<>>]
  /\ done' = done \cup {"clear_collisions"}
  /\ UNCHANGED << cfgv, step, ents, charge, dynamics, forces, lifetime, mass,
                  physicality, lazy, output, hist >>

ClearForces ==
  /\ CanRun("clear_forces")
  /\ forces' = [e \in DOMAIN forces |-> EmptyMap]
  /\ done' = done \cup {"clear_forces"}
  /\ UNCHANGED << cfgv, step, ents, charge, collisions, dynamics, lifetime,
                  mass, physicality, lazy, output, hist >>

UpdateLifetimes ==
  /\ CanRun("update_lifetimes")
  /\ lifetime' = [e \in DOMAIN lifetime |-> lifetime[e] + 1]
  /\ done' = done \cup {"update_lifetimes"}
  /\ UNCHANGED << cfgv, step, ents, charge, collisions, dynamics, forces, mass,
                  physicality, lazy, output, hist >>

OutputEntity(e) ==
  [ acceleration |-> dynamics[e].acceleration,
    charge |-> charge[e],
    mass |-> mass[e],
    position |-> dynamics[e].position,
    velocity |-> dynamics[e].velocity ]

OutputEntry ==
  LET joined == Ordered(DOMAIN charge \cap DOMAIN dynamics \cap DOMAIN mass)
  IN [ step |-> 0,
       entities |-> [k \in 1..Len(joined) |-> OutputEntity(joined[k])] ]

\* the file is opened without `append`, so that a record replaces the document
Truncated(file, entry) == << entry >>

\* OpenOptions .append(true) followed by write_all
Appended(file, entry) == Append(file, entry)

WriteOutput ==
  /\ CanRun("write_output")
  /\ output' = Appended(output, OutputEntry)
  /\ done' = done \cup {"write_output"}
  /\ UNCHANGED << cfgv, step, ents, charge, collisions, dynamics, forces,
                  lifetime, mass, physicality, lazy, hist >>

\* ---- force systems
Kinds == {"gravity", "electrostatics"}

\* a force that an earlier visit has not written yet is computed on every visit
KeyNeverFound(f, kind, j) == FALSE

\* the key names the partner only, so that an entry of the other system counts
KeyOfAnyKind(f, kind, j) == \E k \in Kinds : <<k, j>> \in DOMAIN f

\* i_forces.0.contains_key(&format!("<kind>:{:?}", j_entity))
ContainsKey(f, kind, j) == <<kind, j>> \in DOMAIN f

\* dvec.direction() * (k / (dmag * dmag))
InverseSquare(dvec, k) ==
  VecMulS(Direction(dvec), FDiv(k, FMul(Magnitude(dvec), Magnitude(dvec))))

\* the insert of the force into the map of i and of its negation into the
\* map of j
InsertBoth(f, kind, i, j, v) ==
  IF j \in DOMAIN f
  THEN [f EXCEPT ![i] = Put(@, <<kind, j>>, v),
                 ![j] = Put(@, <<kind, i>>, VecNeg(v))]
  ELSE [f EXCEPT ![i] = Put(@, <<kind, j>>, v)]

\* one body of the nested loops: st.f is the Forces storage being written,
\* st.log the history of direct computations
GravityPair(st, i, j) ==
  IF i \in DOMAIN st.f /\ i # j /\ ~ContainsKey(st.f[i], "gravity", j)
  THEN [f |-> InsertBoth(st.f, "gravity", i, j,
                InverseSquare(VecSub(dynamics[j].position, dynamics[i].position),
                              FMul(FMul(res.GravitationalConstant, mass[i]), mass[j]))),
        log |-> Append(st.log, <<"gravity", i, j>>)]
  ELSE st

ElectrostaticsPair(st, i, j) ==
  IF i \in DOMAIN st.f /\ i # j /\ ~ContainsKey(st.f[i], "electrostatics", j)
  THEN [f |-> InsertBoth(st.f, "electrostatics", i, j,
                InverseSquare(VecSub(dynamics[j].position, dynamics[i].position),
                              FMul(FMul(FMul(I(-1), res.ElectrostaticConstant),
                                        charge[i]), charge[j]))),
        log |-> Append(st.log, <<"electrostatics", i, j>>)]
  ELSE st

GravityJoin == Entities \cap DOMAIN dynamics \cap DOMAIN mass

ElectrostaticsJoin == Entities \cap DOMAIN charge \cap DOMAIN dynamics

\* the nested loops over the join: a is the position of the outer loop, b of
\* the inner one
RECURSIVE GravityInner(_, _, _, _)
GravityInner(seq, a, b, st) ==
  IF b > Len(seq) THEN st
  ELSE Only({GravityInner(seq, a, b + 1, nx) :
               nx \in {GravityPair(st, seq[a], seq[b])}})

RECURSIVE GravityLoop(_, _, _)
GravityLoop(seq, a, st) ==
  IF a > Len(seq) THEN st
  ELSE Only({GravityLoop(seq, a + 1, nx) : nx \in {GravityInner(seq, a, 1, st)}})

RECURSIVE ElectrostaticsInner(_, _, _, _)
ElectrostaticsInner(seq, a, b, st) ==
  IF b > Len(seq) THEN st
  ELSE Only({ElectrostaticsInner(seq, a, b + 1, nx) :
               nx \in {ElectrostaticsPair(st, seq[a], seq[b])}})

RECURSIVE ElectrostaticsLoop(_, _, _)
ElectrostaticsLoop(seq, a, st) ==
  IF a > Len(seq) THEN st
  ELSE Only({ElectrostaticsLoop(seq, a + 1, nx) :
               nx \in {ElectrostaticsInner(seq, a, 1, st)}})

HandleGravity ==
  /\ CanRun("handle_gravity")
  /\ \E st \in {GravityLoop(Ordered(GravityJoin), 1,
                            [f |-> forces, log |-> computed])} :
       /\ forces' = st.f
       /\ computed' = st.log
  /\ done' = done \cup {"handle_gravity"}
  /\ UNCHANGED << cfgv, step, ents, charge, collisions, dynamics, lifetime,
                  mass, physicality, lazy, output, created, collided,
                  maintained >>

HandleElectrostatics ==
  /\ CanRun("handle_electrostatics")
  /\ \E st \in {ElectrostaticsLoop(Ordered(ElectrostaticsJoin), 1,
                                   [f |-> forces, log |-> computed])} :
       /\ forces' = st.f
       /\ computed' = st.log
  /\ done' = done \cup {"handle_electrostatics"}
  /\ UNCHANGED << cfgv, step, ents, charge, collisions, dynamics, lifetime,
                  mass, physicality, lazy, output, created, collided,
                  maintained >>

\* f.0.values().sum() / m.0
NetForce(f) ==
  LET keys == DOMAIN f
      RECURSIVE Values(_)
      Values(K) == IF K = {} THEN <<>>
                   ELSE LET k == CHOOSE x \in K : TRUE
                        IN <<f[k]>> \o Values(K \ {k})
  IN VecSum(Values(keys))

\* the acceleration of this tick is added to the one the last tick left
AccelerationAdded(d, f, m) ==
  [d EXCEPT !.acceleration = VecAdd(@, VecDivS(NetForce(f), m))]

\* d.acceleration = net_force / m.0
Acceleration(d, f, m) == [d EXCEPT !.acceleration = VecDivS(NetForce(f), m)]

HandleForces ==
  /\ CanRun("handle_forces")
  /\ dynamics' =
       [e \in DOMAIN dynamics |->
          IF e \in DOMAIN forces /\ e \in DOMAIN mass
          THEN Acceleration(dynamics[e], forces[e], mass[e])
          ELSE dynamics[e]]
  /\ done' = done \cup {"handle_forces"}
  /\ UNCHANGED << cfgv, step, ents, charge, collisions, forces, lifetime, mass,
                  physicality, lazy, output, hist >>

\* `v *= lo / mag` below the minimum, `v *= hi / mag` above the maximum
Clamped(v, mag, lo, hi) ==
  IF FLt(mag, lo) THEN VecMulS(v, FDiv(lo, mag))
  ELSE IF FGt(mag, hi) THEN VecMulS(v, FDiv(hi, mag))
  ELSE v

Clamp(v, lo, hi) == Clamped(v, Magnitude(v), lo, hi)

\* the position is clamped, and the velocity is reversed and halved in the
\* branch of the maximum
Bound(acc, vel, pos) ==
  [ acceleration |-> acc,
    position |-> Clamp(pos, res.minimum_position, res.maximum_position),
    velocity |-> IF /\ ~FLt(Magnitude(pos), res.minimum_position)
                    /\ FGt(Magnitude(pos), res.maximum_position)
                 THEN VecDivS(VecNeg(vel), I(2))
                 ELSE vel ]

\* the position advances by the velocity that the tick started with
MoveByOldVelocity(obj, acc, vel) ==
  Bound(acc, vel, VecAdd(obj.position, VecMulS(obj.velocity, res.DeltaTime)))

\* obj.position += obj.velocity * dt.0
Move(obj, acc, vel) == Bound(acc, vel, VecAdd(obj.position, VecMulS(vel, res.DeltaTime)))

\* obj.velocity += obj.acceleration * dt.0
Accelerate(obj, acc) ==
  Move(obj, acc, Clamp(VecAdd(obj.velocity, VecMulS(acc, res.DeltaTime)),
                       res.minimum_velocity, res.maximum_velocity))

\* the three clamp-and-advance steps of one entity
Integrate(obj) ==
  Accelerate(obj, Clamp(obj.acceleration, res.minimum_acceleration,
                        res.maximum_acceleration))

HandleDynamics ==
  /\ CanRun("handle_dynamics")
  /\ dynamics' = [e \in DOMAIN dynamics |-> Integrate(dynamics[e])]
  /\ done' = done \cup {"handle_dynamics"}
  /\ UNCHANGED << cfgv, step, ents, charge, collisions, forces, lifetime, mass,
                  physicality, lazy, output, hist >>


\* ---- collision detection
\* only the entity visited first records the pair
TouchFirstOnly(c, i, j) == IF i < j THEN [c EXCEPT ![i] = Append(@, j)] ELSE c

\* the two pushes of a positive test
Touch(c, i, j) ==
  LET ci == [c EXCEPT ![i] = Append(@, j)]
  IN IF j \in DOMAIN ci THEN [ci EXCEPT ![j] = Append(@, i)] ELSE ci

\* only the arm of two spheres signals a collision
ShapesCollideSpheresOnly(si, sj, dist) ==
  /\ si.kind = "Sphere"
  /\ sj.kind = "Sphere"
  /\ FLe(FSub(dist, FAdd(si.r, sj.r)), Zero)

\* the match on (i_phys.shape, j_phys.shape)
ShapesCollide(si, sj, dist) ==
  CASE si.kind = "Sphere" /\ sj.kind = "Point" -> FLe(FSub(dist, si.r), Zero)
    [] si.kind = "Sphere" /\ sj.kind = "Sphere" ->
         FLe(FSub(dist, FAdd(si.r, sj.r)), Zero)
    [] si.kind = "Point" /\ sj.kind = "Sphere" -> FLe(FSub(dist, sj.r), Zero)
    [] OTHER -> FALSE

\* the shapes are tested at every distance below the maximum threshold
CollideByShape(c, i, j, dist) ==
  IF FLt(dist, res.maximum_detection_theshold)
     /\ ShapesCollide(physicality[i].shape, physicality[j].shape, dist)
  THEN Touch(c, i, j)
  ELSE c

\* the tests on the distance of a pair
Collide(c, i, j, dist) ==
  IF FLt(dist, res.maximum_detection_theshold)
  THEN IF FLt(dist, res.minimum_detection_theshold)
       THEN Touch(c, i, j)
       ELSE IF ShapesCollide(physicality[i].shape, physicality[j].shape, dist)
            THEN Touch(c, i, j)
            ELSE c
  ELSE c

DetectPair(c, i, j) ==
  IF /\ physicality[i].collisions_enabled
     /\ i \in DOMAIN c
     /\ i # j
     /\ physicality[j].collisions_enabled
     /\ ~Contains(c[i], j)
  THEN Collide(c, i, j,
               Magnitude(VecSub(dynamics[j].position, dynamics[i].position)))
  ELSE c

DetectionJoin == Entities \cap DOMAIN dynamics \cap DOMAIN physicality

RECURSIVE DetectInner(_, _, _, _)
DetectInner(seq, a, b, c) ==
  IF b > Len(seq) THEN c
  ELSE Only({DetectInner(seq, a, b + 1, nx) : nx \in {DetectPair(c, seq[a], seq[b])}})

RECURSIVE DetectLoop(_, _, _)
DetectLoop(seq, a, c) ==
  IF a > Len(seq) THEN c
  ELSE Only({DetectLoop(seq, a + 1, nx) : nx \in {DetectInner(seq, a, 1, c)}})

CollisionDetection ==
  /\ CanRun("collision_detection")
  /\ collisions' = DetectLoop(Ordered(DetectionJoin), 1, collisions)
  /\ done' = done \cup {"collision_detection"}
  /\ UNCHANGED << cfgv, step, ents, charge, dynamics, forces, lifetime, mass,
                  physicality, lazy, output, hist >>

\* ---- collision handling
\* a delete of an entity that is already queued for deletion is an error
DeleteOnce(m, e) ==
  IF e \in alive \cup m.raised /\ e \notin m.killed
  THEN [killed |-> m.killed \cup {e}, failed |-> m.failed]
  ELSE [killed |-> m.killed, failed |-> TRUE]

\* entities.delete(e).expect(..): the entity is queued in the killed set when
\* its generation is alive, whether it is queued already or not; the delete
\* of any other entity returns WrongGeneration and the expect panics
Delete(m, e) ==
  IF e \in alive \cup m.raised
  THEN [killed |-> m.killed \cup {e}, failed |-> m.failed]
  ELSE [killed |-> m.killed, failed |-> TRUE]

\* a new entity starts with a Lifetime of one
LazyInsertAged(e, c, v) ==
  [entity |-> e, component |-> c, value |-> IF c = "Lifetime" THEN 1 ELSE v]

\* lazy_updater.insert(entity, component)
LazyInsert(e, c, v) == [entity |-> e, component |-> c, value |-> v]

\* one partner o added to the new_* accumulators of m, its Collisions removed
\* and its deletion recorded
AbsorbOne(w, o, m) ==
  [ new_charge |-> IF o \in DOMAIN w.charge
                   THEN FAdd(m.new_charge, w.charge[o]) ELSE m.new_charge,
    new_position |-> IF o \in DOMAIN w.dynamics
                     THEN VecAdd(m.new_position,
                                 VecDivS(VecSub(w.dynamics[o].position, m.new_position),
                                         I(2)))
                     ELSE m.new_position,
    new_velocity |-> IF o \in DOMAIN w.dynamics
                     THEN VecAdd(m.new_velocity, w.dynamics[o].velocity)
                     ELSE m.new_velocity,
    new_mass |-> IF o \in DOMAIN w.mass
                 THEN FAdd(m.new_mass, w.mass[o]) ELSE m.new_mass,
    new_radius |-> IF o \in DOMAIN w.physicality /\ w.physicality[o].shape.kind = "Sphere"
                   THEN FAdd(m.new_radius, FDiv(w.physicality[o].shape.r, I(2)))
                   ELSE m.new_radius,
    collisions |-> Remove(m.collisions, o),
    raised |-> m.raised,
    killed |-> Delete(m, o).killed,
    failed |-> Delete(m, o).failed ]

\* the loop over the partners of one entity: m holds the new_* accumulators,
\* the Collisions storage and the killed set
RECURSIVE Absorb(_, _, _, _)
Absorb(w, others, n, m) ==
  IF n > Len(others) THEN m
  ELSE Only({Absorb(w, others, n + 1, nx) : nx \in {AbsorbOne(w, others[n], m)}})

\* the accumulators before the loop over the partners
Accumulators(w, entity) ==
  [ new_charge |-> IF entity \in DOMAIN w.charge THEN w.charge[entity] ELSE Zero,
    new_mass |-> IF entity \in DOMAIN w.mass THEN w.mass[entity] ELSE Zero,
    new_position |-> IF entity \in DOMAIN w.dynamics
                     THEN w.dynamics[entity].position ELSE VecDefault,
    new_velocity |-> IF entity \in DOMAIN w.dynamics
                     THEN w.dynamics[entity].velocity ELSE VecDefault,
    new_radius |-> IF entity \in DOMAIN w.physicality
                      /\ w.physicality[entity].shape.kind = "Sphere"
                   THEN FDiv(w.physicality[entity].shape.r, I(2))
                   ELSE Zero,
    collisions |-> w.collisions,
    raised |-> w.raised,
    killed |-> w.killed,
    failed |-> w.failed ]

\* the entity created from the accumulators m, and the deletion of `entity`
Merged(w, entity, others, m, new_entity) ==
  [ charge |-> Put(w.charge, new_entity, m.new_charge),
    collisions |-> Remove(m.collisions, entity),
    dynamics |-> Put(w.dynamics, new_entity,
                     [acceleration |-> VecDefault,
                      position |-> m.new_position,
                      velocity |-> m.new_velocity]),
    mass |-> Put(w.mass, new_entity, m.new_mass),
    physicality |-> Put(w.physicality, new_entity,
                        [collisions_enabled |-> TRUE,
                         shape |-> Sphere(m.new_radius)]),
    killed |-> Delete(m, entity).killed,
    failed |-> Delete(m, entity).failed,
    raised |-> w.raised \cup {new_entity},
    nextId |-> w.nextId + 1,
    lazy |-> w.lazy \o << LazyInsert(new_entity, "Collisions", <<>>),
                          LazyInsert(new_entity, "Forces", EmptyMap),
                          LazyInsert(new_entity, "Lifetime", 0) >>,
    created |-> Put(w.created, new_entity,
                    [by |-> "merge", from |-> entity, with |-> others]) ]

\* the Collisions list of the entity, cloned before the loop
Partners(w, entity) ==
  IF entity \in DOMAIN w.collisions THEN w.collisions[entity] ELSE <<>>

MergeEntity(w, entity) ==
  IF Len(Partners(w, entity)) > 0
  THEN Merged(w, entity, Partners(w, entity),
              Absorb(w, Partners(w, entity), 1, Accumulators(w, entity)),
              w.nextId)
  ELSE w

RECURSIVE MergeLoop(_, _, _)
MergeLoop(seq, n, w) ==
  IF n > Len(seq) THEN w
  ELSE Only({MergeLoop(seq, n + 1, nx) : nx \in {MergeEntity(w, seq[n])}})

HandleCollisions ==
  /\ CanRun("handle_collisions")
  /\ \E w \in {MergeLoop(Ordered(Entities), 1,
                 [charge |-> charge, collisions |-> collisions,
                  dynamics |-> dynamics, mass |-> mass,
                  physicality |-> physicality, killed |-> killed,
                  failed |-> aborted,
                  raised |-> raised, nextId |-> nextId, lazy |-> lazy,
                  created |-> created])} :
       /\ aborted' = w.failed
       /\ charge' = w.charge
       /\ collisions' = w.collisions
       /\ dynamics' = w.dynamics
       /\ mass' = w.mass
       /\ physicality' = w.physicality
       /\ killed' = w.killed
       /\ raised' = w.raised
       /\ nextId' = w.nextId
       /\ lazy' = w.lazy
       /\ created' = w.created
  /\ collided' = collisions
  /\ done' = done \cup {"handle_collisions"}
  /\ UNCHANGED << cfgv, step, alive, forces, lifetime, output, computed,
                  maintained >>

\* ---- splitting
\* the threshold scaled for positive masses only
SplitFactorPositive(m) ==
  IF FGe(m, I(10))
  THEN FDiv(I(res.maximum_lifetime), FFloor(FDiv(m, I(10))))
  ELSE I(res.maximum_lifetime)

SplitFactor(m) ==
  IF FGe(m, I(10))
  THEN FDiv(I(res.maximum_lifetime), FFloor(FDiv(m, I(10))))
  ELSE IF FLe(m, I(-10))
  THEN FDiv(I(res.maximum_lifetime), FFloor(FDiv(FNeg(m), I(10))))
  ELSE I(res.maximum_lifetime)

\* a split that waits one tick longer than maximum_lifetime asks
SplitsLate(life, m) ==
  /\ life > res.minimum_lifetime
  /\ life > res.maximum_lifetime + 1

\* a split as soon as the minimum lifetime has passed
SplitsAtMinimum(life, m) == life > res.minimum_lifetime

\* the condition of the `if` that guards the split
Splits(life, m) ==
  /\ life > res.minimum_lifetime
  /\ (life > res.maximum_lifetime \/ FGt(I(life), SplitFactor(m)))

\* both daughters receive the rounded-down half of the charge
ChargeP2Floored(q) == IF q = Zero THEN I(1) ELSE FFloor(FDiv(q, I(2)))

\* the charge of the second daughter p2
ChargeP2(q) == IF q = Zero THEN I(1) ELSE FCeil(FDiv(q, I(2)))

\* the charge of the first daughter p1
ChargeP1(q) == IF q = Zero THEN I(-1) ELSE FFloor(FDiv(q, I(2)))

SplitEntity(w, entity) ==
  LET m == IF entity \in DOMAIN w.mass THEN w.mass[entity] ELSE I(1)
      radius == IF entity \in DOMAIN w.physicality
                   /\ w.physicality[entity].shape.kind = "Sphere"
                THEN w.physicality[entity].shape.r ELSE I(1)
  IN IF Splits(lifetime[entity], m)
     THEN LET q == IF entity \in DOMAIN w.charge THEN w.charge[entity] ELSE Zero
              position == IF entity \in DOMAIN w.dynamics
                          THEN w.dynamics[entity].position ELSE VecDefault
              velocity == IF entity \in DOMAIN w.dynamics
                          THEN w.dynamics[entity].velocity ELSE VecDefault
              p1 == w.nextId
              p2 == w.nextId + 1
              q1 == ChargeP1(q)
              q2 == ChargeP2(q)
              offset == FMul(res.separation_multiplier, radius)
              body == [collisions_enabled |-> TRUE, shape |-> Sphere(radius)]
          IN [ charge |-> Put(Put(w.charge, p1, q1), p2, q2),
               mass |-> Put(Put(w.mass, p1, FDiv(m, I(2))), p2, FDiv(m, I(2))),
               dynamics |->
                 Put(Put(w.dynamics, p1,
                         [acceleration |-> VecDefault,
                          position |-> VecAddS(position, offset),
                          velocity |-> VecMulS(velocity, res.velocity_multiplier)]),
                     p2,
                     [acceleration |-> VecDefault,
                      position |-> VecSubS(position, offset),
                      velocity |-> VecNeg(VecMulS(velocity, res.velocity_multiplier))]),
               physicality |-> Put(Put(w.physicality, p1, body), p2, body),
               killed |-> Delete(w, entity).killed,
               failed |-> Delete(w, entity).failed,
               raised |-> w.raised \cup {p1, p2},
               nextId |-> w.nextId + 2,
               lazy |-> w.lazy \o << LazyInsert(p1, "Collisions", <<>>),
                                     LazyInsert(p2, "Collisions", <<>>),
                                     LazyInsert(p1, "Forces", EmptyMap),
                                     LazyInsert(p2, "Forces", EmptyMap),
                                     LazyInsert(p1, "Lifetime", 0),
                                     LazyInsert(p2, "Lifetime", 0) >>,
               created |-> Put(Put(w.created, p1,
                                   [by |-> "split", from |-> entity, with |-> <<>>]),
                               p2, [by |-> "split", from |-> entity, with |-> <<>>]) ]
     ELSE w

RECURSIVE SplitLoop(_, _, _)
SplitLoop(seq, n, w) ==
  IF n > Len(seq) THEN w
  ELSE Only({SplitLoop(seq, n + 1, nx) : nx \in {SplitEntity(w, seq[n])}})

\* the split stage joins over the entities alone
SplittingJoinAll == Entities

\* (&*entities, &lifetimes).join()
SplittingJoin == Entities \cap DOMAIN lifetime

HandleSplitting ==
  /\ CanRun("handle_splitting")
  /\ \E w \in {SplitLoop(Ordered(SplittingJoin), 1,
                 [charge |-> charge, dynamics |-> dynamics, mass |-> mass,
                  physicality |-> physicality, killed |-> killed,
                  failed |-> aborted,
                  raised |-> raised, nextId |-> nextId, lazy |-> lazy,
                  created |-> created])} :
       /\ aborted' = w.failed
       /\ charge' = w.charge
       /\ dynamics' = w.dynamics
       /\ mass' = w.mass
       /\ physicality' = w.physicality
       /\ killed' = w.killed
       /\ raised' = w.raised
       /\ nextId' = w.nextId
       /\ lazy' = w.lazy
       /\ created' = w.created
  /\ done' = done \cup {"handle_splitting"}
  /\ UNCHANGED << cfgv, step, alive, collisions, forces, lifetime, output,
                  computed, collided, maintained >>

\* ---- world.maintain()
\* the components of the deleted entities are dropped and the queued lazy
\* inserts are lost
FlushWithoutQueue(store, c, live) == [e \in DOMAIN store \cap live |-> store[e]]

\* the components of the deleted entities are dropped, then the queued lazy
\* inserts are applied in order to the entities that are still alive
Flush(store, c, live) ==
  LET queued(e) == {n \in 1..Len(lazy) : lazy[n].component = c /\ lazy[n].entity = e}
      last(e) == CHOOSE n \in queued(e) : \A k \in queued(e) : k <= n
  IN [e \in (DOMAIN store \cap live) \cup {x \in live : queued(x) # {}} |->
        IF queued(e) # {} THEN lazy[last(e)].value ELSE store[e]]

\* maintain called while the last stages of the dispatch are still to run
DispatchRunning == "handle_dynamics" \in done

\* dispatcher.dispatch(&mut world) has returned: every system has run
DispatchReturned == done = Systems

Maintain ==
  /\ ~aborted
  /\ step <= steps
  /\ DispatchReturned
  /\ LET live == (alive \cup raised) \ killed
     IN /\ alive' = live
        /\ charge' = Flush(charge, "Charge", live)
        /\ collisions' = Flush(collisions, "Collisions", live)
        /\ dynamics' = Flush(dynamics, "Dynamics", live)
        /\ forces' = Flush(forces, "Forces", live)
        /\ lifetime' = Flush(lifetime, "Lifetime", live)
        /\ mass' = Flush(mass, "Mass", live)
        /\ physicality' = Flush(physicality, "Physicality", live)
  /\ raised' = {}
  /\ killed' = {}
  /\ lazy' = <<>>
  /\ step' = step + 1
  /\ done' = {}
  /\ computed' = <<>>
  /\ created' = <<>>
  /\ collided' = <<>>
  /\ maintained' = maintained + 1
  /\ UNCHANGED << cfgv, nextId, output, aborted >>

Next ==
  \/ ClearCollisions
  \/ ClearForces
  \/ WriteOutput
  \/ UpdateLifetimes
  \/ HandleElectrostatics
  \/ HandleGravity
  \/ HandleForces
  \/ HandleDynamics
  \/ CollisionDetection
  \/ HandleCollisions
  \/ HandleSplitting
  \/ Maintain

Spec == Init /\ [][Next]_vars

\* ---- the force stage with its two systems interleaved
\* Both force systems depend on clear_forces only; the dispatcher runs them
\* one after the other because both write Forces.  Here they run in either
\* order and interleave between the bodies of their nested loops.
MayRun(s) ==
  /\ ~aborted
  /\ step <= steps
  /\ s \notin done
  /\ dispatcher[s] \ {"handle_electrostatics", "handle_gravity"} \subseteq done

\* the first pair of a set in the order of the nested loops
FirstPair(S) ==
  CHOOSE p \in S : \A q \in S : p[1] < q[1] \/ (p[1] = q[1] /\ p[2] <= q[2])

\* the pairs on which the body of the loops still computes a force
GravityPending ==
  {p \in GravityJoin \X GravityJoin :
     /\ p[1] \in DOMAIN forces
     /\ p[1] # p[2]
     /\ ~ContainsKey(forces[p[1]], "gravity", p[2])}

ElectrostaticsPending ==
  {p \in ElectrostaticsJoin \X ElectrostaticsJoin :
     /\ p[1] \in DOMAIN forces
     /\ p[1] # p[2]
     /\ ~ContainsKey(forces[p[1]], "electrostatics", p[2])}

\* the loops advance to the next pair that is computed, and compute it
GravityStep ==
  /\ MayRun("handle_gravity")
  /\ GravityPending # {}
  /\ \E p \in {FirstPair(GravityPending)} :
       \E st \in {GravityPair([f |-> forces, log |-> computed], p[1], p[2])} :
         /\ forces' = st.f
         /\ computed' = st.log
  /\ UNCHANGED << cfgv, step, done, ents, charge, collisions, dynamics, lifetime,
                  mass, physicality, lazy, output, created, collided,
                  maintained >>

\* the loops run to their end
GravityEnd ==
  /\ MayRun("handle_gravity")
  /\ GravityPending = {}
  /\ done' = done \cup {"handle_gravity"}
  /\ UNCHANGED << cfgv, step, ents, charge, collisions, dynamics, forces,
                  lifetime, mass, physicality, lazy, output, hist >>

ElectrostaticsStep ==
  /\ MayRun("handle_electrostatics")
  /\ ElectrostaticsPending # {}
  /\ \E p \in {FirstPair(ElectrostaticsPending)} :
       \E st \in {ElectrostaticsPair([f |-> forces, log |-> computed], p[1], p[2])} :
         /\ forces' = st.f
         /\ computed' = st.log
  /\ UNCHANGED << cfgv, step, done, ents, charge, collisions, dynamics, lifetime,
                  mass, physicality, lazy, output, created, collided,
                  maintained >>

ElectrostaticsEnd ==
  /\ MayRun("handle_electrostatics")
  /\ ElectrostaticsPending = {}
  /\ done' = done \cup {"handle_electrostatics"}
  /\ UNCHANGED << cfgv, step, ents, charge, collisions, dynamics, forces,
                  lifetime, mass, physicality, lazy, output, hist >>

NextInterleaved ==
  \/ ClearCollisions
  \/ ClearForces
  \/ WriteOutput
  \/ UpdateLifetimes
  \/ ElectrostaticsStep
  \/ ElectrostaticsEnd
  \/ GravityStep
  \/ GravityEnd
  \/ HandleForces
  \/ HandleDynamics
  \/ CollisionDetection
  \/ HandleCollisions
  \/ HandleSplitting
  \/ Maintain

SpecInterleaved == Init /\ [][NextInterleaved]_vars

\* ============================================================== properties
ForcesDone == {"handle_gravity", "handle_electrostatics"} \subseteq done

\* C1: once gravity and electrostatics have run in a tick, for all entities
\* i, j that carry Forces and every kind K, the entry K:j of i is present
\* exactly when the entry K:i of j is, and is its exact negation.  The entries
\* are compared as values: for two bodies at the same position both are NaN.
C1_ForceSymmetry ==
  ForcesDone =>
    \A i \in DOMAIN forces, j \in DOMAIN forces, kind \in Kinds :
      /\ (<<kind, j>> \in DOMAIN forces[i]) <=> (<<kind, i>> \in DOMAIN forces[j])
      /\ <<kind, j>> \in DOMAIN forces[i] =>
           forces[i][<<kind, j>>] = FNeg(forces[j][<<kind, i>>])

C1_Witness ==
  /\ ForcesDone
  /\ \E i \in DOMAIN forces, j \in DOMAIN forces :
       /\ <<"gravity", j>> \in DOMAIN forces[i]
       /\ <<"electrostatics", j>> \in DOMAIN forces[i]
       /\ FGt(forces[i][<<"gravity", j>>], Zero)
       /\ FLt(forces[i][<<"electrostatics", j>>], Zero)

Count(seq, x) == Cardinality({n \in 1..Len(seq) : seq[n] = x})

\* C2: in one tick every unordered pair {i, j} of the join is computed
\* directly exactly once per kind, by the entity visited first; the second
\* visit skips, and every force map holds exactly the entries K:partner.
C2_OncePerPair ==
  ForcesDone =>
    /\ \A i \in DOMAIN forces, j \in DOMAIN forces, kind \in Kinds :
         i < j => /\ Count(computed, <<kind, i, j>>) = 1
                  /\ Count(computed, <<kind, j, i>>) = 0
    /\ \A i \in DOMAIN forces :
         DOMAIN forces[i] = {<<kind, j>> : kind \in Kinds, j \in DOMAIN forces \ {i}}
    /\ Len(computed) =
         Cardinality(Kinds) * Cardinality({p \in (DOMAIN forces) \X (DOMAIN forces) : p[1] < p[2]})

C2_Witness ==
  /\ ForcesDone
  /\ Cardinality(DOMAIN forces) = 3
  /\ Len(computed) = 6

\* the dependency edges that main.rs declares
Edges ==
  { <<"clear_forces", "handle_gravity">>,
    <<"clear_forces", "handle_electrostatics">>,
    <<"handle_gravity", "handle_forces">>,
    <<"handle_electrostatics", "handle_forces">>,
    <<"handle_forces", "handle_dynamics">>,
    <<"clear_collisions", "collision_detection">>,
    <<"handle_dynamics", "collision_detection">>,
    <<"collision_detection", "handle_collisions">>,
    <<"handle_collisions", "handle_splitting">>,
    <<"update_lifetimes", "handle_splitting">> }

\* C3: in every tick a stage has run only if every stage it depends on has
\* run before it.
C3_DependencyOrder == \A e \in Edges : e[2] \in done => e[1] \in done

C3_Witness == step = 2 /\ "handle_splitting" \in done

\* C4: in every tick write_output runs after handle_dynamics, so that the
\* record of tick N holds the positions that tick N integrated.
C4_OutputAfterIntegrate == "write_output" \in done => "handle_dynamics" \in done

\* C5: world.maintain() runs exactly once per tick, when every system of the
\* tick has run and before any system of the next tick; only then are the
\* buffered creations, deletions and lazy inserts applied.
C5_MaintainOncePerTick ==
  /\ [](maintained = step - 1)
  /\ [](done = {} => raised = {} /\ killed = {} /\ lazy = <<>>)
  /\ [][ /\ maintained' # maintained =>
              /\ maintained' = maintained + 1
              /\ done = Systems
              /\ done' = {}
              /\ alive' = (alive \cup raised) \ killed
         /\ maintained' = maintained =>
              /\ alive' = alive
              /\ step' = step
              /\ done \subseteq done'
              /\ DOMAIN lifetime' = DOMAIN lifetime ]_vars

C5_Witness ==
  /\ maintained = 1
  /\ done = {}
  /\ \E e \in alive :
       /\ e \in DOMAIN lifetime
       /\ lifetime[e] = 0
       /\ \E d \in 1..(e - 1) : d \notin alive

\* C6: the record written in tick N carries N in its step field.
C6_StepIsTick == \A n \in 1..Len(output) : output[n].step = n

\* C7: every tick appends exactly one record to the output, in tick order,
\* and no record written earlier is changed or removed.
C7_OneRecordPerTick ==
  /\ [](Len(output) = (step - 1) + (IF "write_output" \in done THEN 1 ELSE 0))
  /\ [][ /\ Len(output') >= Len(output)
         /\ SubSeq(output', 1, Len(output)) = output ]_vars

C7_Witness == Len(output) = 2 /\ done = Systems

Range(seq) == {seq[n] : n \in 1..Len(seq)}

\* a and b collide only with each other in this tick
PairOnly(a, b) ==
  /\ a # b
  /\ a \in DOMAIN collided
  /\ b \in DOMAIN collided
  /\ collided[a] = << b >>
  /\ collided[b] = << a >>

\* the entities that handle_splitting created from e
Daughters(e) ==
  {n \in DOMAIN created : created[n].by = "split" /\ created[n].from = e}

\* the entities that handle_collisions created from a or b
MergedFrom(a, b) ==
  {n \in DOMAIN created :
     /\ created[n].by = "merge"
     /\ ({created[n].from} \cup Range(created[n].with)) \cap {a, b} # {}}

\* C8: when two entities collide only with each other in a tick, the tick
\* leaves exactly one entity in their place: after maintain both are gone,
\* and exactly one entity created from them in that tick is alive, whose mass
\* and charge are the sums of theirs.
C8_PairMerges ==
  [][ maintained' # maintained =>
        \A a \in DOMAIN collided, b \in DOMAIN collided :
          PairOnly(a, b) =>
            LET heirs == alive' \cap (MergedFrom(a, b) \cup Daughters(a) \cup Daughters(b))
            IN /\ {a, b} \cap alive' = {}
               /\ Cardinality(heirs) = 1
               /\ \A n \in heirs :
                    /\ mass'[n] = FAdd(mass[a], mass[b])
                    /\ charge'[n] = FAdd(charge[a], charge[b]) ]_vars

\* C9: an entity that reaches the split stage with lifetime
\* maximum_lifetime + 1 and a mass below 10 is deleted and exactly two
\* entities are created from it, each with half its mass; after maintain the
\* parent is gone and both daughters are alive with lifetime 0.
C9_OldEntitySplits ==
  /\ []("handle_splitting" \in done =>
          \A e \in DOMAIN lifetime \cap DOMAIN mass :
            (lifetime[e] = res.maximum_lifetime + 1 /\ FLt(mass[e], I(10))) =>
              /\ e \in killed
              /\ Cardinality(Daughters(e)) = 2
              /\ \A n \in Daughters(e) :
                   n \in raised /\ FAdd(mass[n], mass[n]) = mass[e])
  /\ [][ maintained' # maintained =>
           \A e \in DOMAIN lifetime \cap DOMAIN mass :
             (lifetime[e] = res.maximum_lifetime + 1 /\ FLt(mass[e], I(10))) =>
               /\ e \notin alive'
               /\ e \notin DOMAIN lifetime'
               /\ \A n \in Daughters(e) :
                    /\ n \in alive'
                    /\ n \in DOMAIN lifetime' \cap DOMAIN mass'
                    /\ lifetime'[n] = 0
                    /\ FAdd(mass'[n], mass'[n]) = mass[e] ]_vars

C9_Witness ==
  /\ "handle_splitting" \in done
  /\ \E e \in DOMAIN lifetime \cap DOMAIN mass :
       /\ lifetime[e] = res.maximum_lifetime + 1
       /\ FLt(mass[e], I(10))
       /\ FGt(mass[e], Zero)
       /\ Cardinality(Daughters(e)) = 2

\* the threshold of the split condition, written with |mass|
Threshold(m) ==
  IF FGe(FAbs(m), I(10))
  THEN FDiv(I(res.maximum_lifetime), FFloor(FDiv(FAbs(m), I(10))))
  ELSE I(res.maximum_lifetime)

\* C10: handle_splitting splits an entity if and only if its lifetime is
\* above minimum_lifetime and above maximum_lifetime or the threshold, the
\* threshold being maximum_lifetime / floor(|mass| / 10) for |mass| >= 10 and
\* maximum_lifetime otherwise; no entity whose lifetime is at most
\* minimum_lifetime is split, and nothing is split outside the split stage.
C10_SplitCondition ==
  /\ "handle_splitting" \notin done =>
       \A n \in DOMAIN created : created[n].by # "split"
  /\ "handle_splitting" \in done =>
       \A e \in DOMAIN lifetime \cap DOMAIN mass :
         /\ Daughters(e) # {} <=>
              /\ lifetime[e] > res.minimum_lifetime
              /\ \/ lifetime[e] > res.maximum_lifetime
                 \/ FGt(I(lifetime[e]), Threshold(mass[e]))
         /\ lifetime[e] <= res.minimum_lifetime => Daughters(e) = {}

C10_Witness ==
  /\ "handle_splitting" \in done
  /\ \E e \in DOMAIN lifetime \cap DOMAIN mass :
       /\ lifetime[e] <= res.maximum_lifetime
       /\ FGe(FAbs(mass[e]), I(10))
       /\ Daughters(e) # {}

\* C11: a split preserves the total charge exactly.  Once handle_splitting
\* has run, the two daughters of a parent with a nonzero charge carry
\* floor(charge / 2) and ceil(charge / 2), and the two daughters of a parent
\* with charge zero carry -1 and +1; in both cases their charges add up to the
\* charge of the parent.
C11_SplitKeepsCharge ==
  "handle_splitting" \in done =>
    \A e \in DOMAIN charge :
      Daughters(e) # {} =>
        \E p1 \in Daughters(e), p2 \in Daughters(e) :
          /\ p1 < p2
          /\ Daughters(e) = {p1, p2}
          /\ IF charge[e] = Zero
             THEN charge[p1] = I(-1) /\ charge[p2] = I(1)
             ELSE /\ charge[p1] = FFloor(FDiv(charge[e], I(2)))
                  /\ charge[p2] = FCeil(FDiv(charge[e], I(2)))
          /\ FAdd(charge[p1], charge[p2]) = charge[e]

\* a parent with an odd charge has split: its daughters differ by one
C11_Witness ==
  /\ "handle_splitting" \in done
  /\ \E e \in DOMAIN charge :
       /\ Daughters(e) # {}
       /\ charge[e][1] % 2 = 1
       /\ \E n \in Daughters(e) : charge[n] # FDiv(charge[e], I(2))

\* the entity meets the split condition
SplitDue(e) ==
  /\ lifetime[e] > res.minimum_lifetime
  /\ \/ lifetime[e] > res.maximum_lifetime
     \/ FGt(I(lifetime[e]), Threshold(mass[e]))

\* nothing has been created or deleted in this tick, no collision is recorded
\* and no entity that reaches the split stage meets the split condition
Quiet ==
  /\ raised = {}
  /\ killed = {}
  /\ \A e \in DOMAIN collisions : collisions[e] = <<>>
  /\ ("handle_collisions" \in done /\ "handle_splitting" \notin done) =>
       \A e \in Entities \cap DOMAIN lifetime \cap DOMAIN mass : ~SplitDue(e)

\* C12: only handle_collisions and handle_splitting write Charge or Mass.  A
\* step of any system, and maintain, taken while no collision is recorded and
\* no entity meets the split condition leaves every charge and every mass as
\* it was, creates no entity and deletes none; so over any number of such
\* ticks the charges and masses stay at their initial values.
C12_ChargeMassFrame ==
  [][ Quiet =>
        /\ charge' = charge
        /\ mass' = mass
        /\ alive' = alive
        /\ raised' = {}
        /\ killed' = {}
        /\ nextId' = nextId ]_vars

\* a tick with forces acting has ended and no entity was ever created
C12_Witness ==
  /\ maintained >= 1
  /\ alive = 1..(nextId - 1)
  /\ Cardinality(alive) >= 2
  /\ \E e \in alive : /\ dynamics[e].acceleration # Zero
                       /\ IsFinite(dynamics[e].acceleration)

\* collision_detection has run and handle_collisions has not yet
Detected == "collision_detection" \in done /\ "handle_collisions" \notin done

\* the collision-enabled entities that the detector visits
Detectable ==
  {e \in alive \cap DOMAIN dynamics \cap DOMAIN physicality \cap DOMAIN collisions :
     physicality[e].collisions_enabled}

\* the distance between two entities
Dist(i, j) == FAbs(FSub(dynamics[j].position, dynamics[i].position))

\* C13: after collision detection, for every pair of collision-enabled
\* entities at distance r: if r >= maximum_detection_theshold neither lists
\* the other, whatever their shapes and radii; if r <
\* minimum_detection_theshold each lists the other, whatever their shapes.
C13_Thresholds ==
  Detected =>
    \A i \in Detectable, j \in Detectable :
      i # j =>
        /\ FGe(Dist(i, j), res.maximum_detection_theshold) =>
             ~Contains(collisions[i], j) /\ ~Contains(collisions[j], i)
        /\ FLt(Dist(i, j), res.minimum_detection_theshold) =>
             Contains(collisions[i], j) /\ Contains(collisions[j], i)

\* two points closer than the minimum threshold have been recorded
C13_Witness ==
  /\ Detected
  /\ \E i \in Detectable, j \in Detectable :
       /\ i # j
       /\ physicality[i].shape = Point
       /\ physicality[j].shape = Point
       /\ FLt(Dist(i, j), res.minimum_detection_theshold)
       /\ Contains(collisions[i], j)

\* the documented shape test of a pair between the two thresholds
Overlap(si, sj, r) ==
  \/ si.kind = "Sphere" /\ sj.kind = "Sphere" /\ FLe(r, FAdd(si.r, sj.r))
  \/ si.kind = "Sphere" /\ sj.kind = "Point" /\ FLe(r, si.r)
  \/ si.kind = "Point" /\ sj.kind = "Sphere" /\ FLe(r, sj.r)

\* C14: after collision detection, a pair of collision-enabled entities at a
\* distance r with minimum_detection_theshold <= r <
\* maximum_detection_theshold is recorded exactly when both are spheres and
\* r <= r1 + r2, or one is a sphere, the other a point and r <= radius; two
\* points and any pair with a cuboid are never recorded.
C14_ShapeTest ==
  Detected =>
    \A i \in Detectable, j \in Detectable :
      ( /\ i # j
        /\ FGe(Dist(i, j), res.minimum_detection_theshold)
        /\ FLt(Dist(i, j), res.maximum_detection_theshold) ) =>
        /\ Contains(collisions[i], j) <=>
             Overlap(physicality[i].shape, physicality[j].shape, Dist(i, j))
        /\ ( \/ "Cuboid" \in {physicality[i].shape.kind, physicality[j].shape.kind}
             \/ {physicality[i].shape.kind, physicality[j].shape.kind} = {"Point"} ) =>
             ~Contains(collisions[i], j)

\* a point inside a sphere, between the thresholds, has been recorded
C14_Witness ==
  /\ Detected
  /\ \E i \in Detectable, j \in Detectable :
       /\ physicality[i].shape.kind = "Point"
       /\ physicality[j].shape.kind = "Sphere"
       /\ FGe(Dist(i, j), res.minimum_detection_theshold)
       /\ FLe(Dist(i, j), physicality[j].shape.r)
       /\ Contains(collisions[i], j)
       /\ Contains(collisions[j], i)

\* C15: after collision detection the recorded relation is symmetric: for all
\* entities i and j that carry a Collisions list, j is in the list of i if
\* and only if i is in the list of j.
C15_Symmetric ==
  Detected =>
    \A i \in DOMAIN collisions, j \in DOMAIN collisions :
      Contains(collisions[i], j) <=> Contains(collisions[j], i)

\* an entity has been recorded with two partners that miss each other
C15_Witness ==
  /\ Detected
  /\ \E i \in DOMAIN collisions, j \in DOMAIN collisions, k \in DOMAIN collisions :
       /\ j < i /\ i < k
       /\ Contains(collisions[i], j)
       /\ Contains(collisions[i], k)
       /\ ~Contains(collisions[j], k)

\* collision_detection is about to start
DetectionBegins ==
  /\ {"clear_collisions", "handle_dynamics"} \subseteq done
  /\ "collision_detection" \notin done

\* C16: Collisions lists are tick-scoped.  When collision detection begins,
\* every entity carries a Collisions list and the list is empty; and every
\* pair that the resolver finds recorded is a pair of entities of this tick
\* that passes the detection test at its distance of this tick.
C16_TickScoped ==
  /\ DetectionBegins =>
       \A e \in alive : e \in DOMAIN collisions /\ collisions[e] = <<>>
  /\ Detected =>
       \A i \in DOMAIN collisions :
         \A n \in 1..Len(collisions[i]) :
           /\ {i, collisions[i][n]} \subseteq Detectable
           /\ FLt(Dist(i, collisions[i][n]), res.maximum_detection_theshold)
           /\ \/ FLt(Dist(i, collisions[i][n]), res.minimum_detection_theshold)
              \/ Overlap(physicality[i].shape,
                         physicality[collisions[i][n]].shape,
                         Dist(i, collisions[i][n]))

\* the second tick begins its detection with the entity that the first tick
\* merged from a recorded pair
C16_Witness ==
  /\ DetectionBegins
  /\ step = 2
  /\ alive = {3}
  /\ nextId = 4

\* i and j are two entities at exactly the same position
Coincident(i, j) ==
  /\ i # j
  /\ IsFinite(dynamics[i].position)
  /\ dynamics[i].position = dynamics[j].position

\* C17: two entities at exactly the same position do not interact.  Once
\* gravity and electrostatics have run, every force entry that one of them
\* holds for the other is zero, and the acceleration that handle_forces
\* derives for them is finite.
C17_CoincidentNoInteraction ==
  (ForcesDone /\ "handle_dynamics" \notin done) =>
    \A i \in DOMAIN forces \cap DOMAIN dynamics, j \in DOMAIN forces \cap DOMAIN dynamics :
      Coincident(i, j) =>
        /\ \A kind \in Kinds :
             <<kind, j>> \in DOMAIN forces[i] => forces[i][<<kind, j>>] = Zero
        /\ "handle_forces" \in done => IsFinite(dynamics[i].acceleration)

\* C18: the integrator never scales a vector of magnitude zero.  In a step of
\* handle_dynamics under a positive minimum magnitude, an acceleration that is
\* exactly zero is left as it is, and an entity whose acceleration and
\* velocity are zero keeps a finite velocity and a finite position.
C18_ZeroNotScaled ==
  [][ ("handle_dynamics" \in done' /\ "handle_dynamics" \notin done) =>
        \A e \in DOMAIN dynamics :
          /\ ( /\ FGt(res.minimum_acceleration, Zero)
               /\ dynamics[e].acceleration = Zero ) =>
               dynamics'[e].acceleration = Zero
          /\ ( /\ FGt(res.minimum_velocity, Zero)
               /\ dynamics[e].acceleration = Zero
               /\ dynamics[e].velocity = Zero
               /\ IsFinite(dynamics[e].position) ) =>
               /\ IsFinite(dynamics'[e].velocity)
               /\ IsFinite(dynamics'[e].position) ]_vars

\* the sum of the entries of a force map under the keys K
RECURSIVE Total(_, _)
Total(f, K) ==
  IF K = {} THEN Zero
  ELSE FAdd(f[CHOOSE k \in K : TRUE], Total(f, K \ {CHOOSE k \in K : TRUE}))

\* C19: in every tick, for every entity that carries Forces, Mass and
\* Dynamics, the acceleration that handle_dynamics finds is the sum of the
\* force entries of the entity divided by its mass, and every one of these
\* entries was written in this tick: the acceleration is overwritten and does
\* not depend on the value that the previous tick left.
C19_AccelerationRecomputed ==
  ("handle_forces" \in done /\ "handle_dynamics" \notin done) =>
    \A e \in DOMAIN forces \cap DOMAIN mass \cap DOMAIN dynamics :
      /\ dynamics[e].acceleration = FDiv(Total(forces[e], DOMAIN forces[e]), mass[e])
      /\ \A key \in DOMAIN forces[e] :
           \/ Contains(computed, <<key[1], e, key[2]>>)
           \/ Contains(computed, <<key[1], key[2], e>>)

\* in the second tick an entity that the first tick accelerated has received
\* another acceleration
C19_Witness ==
  /\ step = 2
  /\ "handle_forces" \in done
  /\ "handle_dynamics" \notin done
  /\ \E e \in DOMAIN forces \cap DOMAIN mass \cap DOMAIN dynamics :
       /\ forces[e] # EmptyMap
       /\ dynamics[e].velocity # Zero
       /\ IsFinite(dynamics[e].acceleration)
       /\ dynamics[e].acceleration # Zero

\* the entities that carry every component except Collisions
Furnished ==
  DOMAIN charge \cap DOMAIN dynamics \cap DOMAIN forces \cap DOMAIN lifetime
    \cap DOMAIN mass \cap DOMAIN physicality

\* the entities that carry a component
Stored ==
  DOMAIN charge \cup DOMAIN collisions \cup DOMAIN dynamics \cup DOMAIN forces
    \cup DOMAIN lifetime \cup DOMAIN mass \cup DOMAIN physicality

\* handle_splitting yields the deleted entities: each one that meets the
\* split condition is split
DeletedStillYielded ==
  [][ ("handle_splitting" \in done' /\ "handle_splitting" \notin done) =>
        \A e \in killed \cap DOMAIN lifetime \cap DOMAIN mass :
          SplitDue(e) =>
            \E n \in DOMAIN created' :
              created'[n].by = "split" /\ created'[n].from = e ]_vars

\* maintain removes the deleted entities and their components, and an entity
\* that is gone never comes back
DeletedGoneAfterMaintain ==
  /\ [][ maintained' # maintained =>
           \A e \in killed :
             /\ e \notin alive' \cup raised'
             /\ e \notin DOMAIN charge' \cup DOMAIN collisions' \cup DOMAIN dynamics'
             /\ e \notin DOMAIN forces' \cup DOMAIN lifetime' \cup DOMAIN mass'
             /\ e \notin DOMAIN physicality' ]_vars
  /\ [][ \A e \in 1..(nextId - 1) :
           e \notin alive \cup raised => e \notin alive' \cup raised' ]_vars
  /\ [](Stored \subseteq alive \cup raised)

\* C20 as stated: the deletions of handle_collisions and handle_splitting are
\* deferred.  An entity deleted during a tick keeps all its components and is
\* yielded by every iteration for the rest of the tick; after the maintain of
\* the tick it is absent from every iteration.
C20_DeletedKeepsAll ==
  /\ [](\A e \in killed :
          /\ e \in alive \cup raised
          /\ e \in Furnished \cap DOMAIN collisions)
  /\ DeletedStillYielded
  /\ DeletedGoneAfterMaintain

\* C20, amended: an entity deleted during a tick keeps its Charge, Dynamics,
\* Forces, Lifetime, Mass and Physicality and is yielded by every iteration
\* for the rest of the tick; after the maintain of the tick it is absent from
\* every iteration.  (handle_collisions removes the Collisions component of
\* the entities it merges at once.)
C20_DeferredDelete ==
  /\ [](\A e \in killed :
          /\ e \in alive \cup raised
          /\ e \in Furnished)
  /\ DeletedStillYielded
  /\ DeletedGoneAfterMaintain

\* an entity deleted by the merge, without its Collisions component, has been
\* yielded by handle_splitting and split
C20_Witness ==
  /\ "handle_splitting" \in done
  /\ \E e \in killed :
       /\ e \notin DOMAIN collisions
       /\ e \in Furnished
       /\ Daughters(e) # {}

\* the entities whose components the iteration of a system yields
JoinOf(s) ==
  CASE s = "clear_collisions" -> DOMAIN collisions
    [] s = "clear_forces" -> DOMAIN forces
    [] s = "write_output" -> DOMAIN charge \cap DOMAIN dynamics \cap DOMAIN mass
    [] s = "update_lifetimes" -> DOMAIN lifetime
    [] s = "handle_electrostatics" -> ElectrostaticsJoin
    [] s = "handle_gravity" -> GravityJoin
    [] s = "handle_forces" -> DOMAIN forces \cap DOMAIN mass \cap DOMAIN dynamics
    [] s = "handle_dynamics" -> DOMAIN dynamics
    [] s = "collision_detection" -> DetectionJoin
    [] s = "handle_collisions" -> Entities \cap DOMAIN collisions
    [] s = "handle_splitting" -> SplittingJoin

\* C21: while a deferred delete is queued, no iteration of the tick yields
\* the components of an entity created in the tick (a merged entity or a
\* daughter of a split): no system starts with such an entity in its join,
\* the entity is neither split nor changed before maintain, and maintain
\* makes it alive with all seven components.
C21_ReplacementHidden ==
  /\ [](\A s \in Systems : CanRun(s) => JoinOf(s) \cap raised = {})
  /\ [](\A n \in raised :
          /\ n \in DOMAIN created
          /\ n \notin DOMAIN lifetime \cup DOMAIN forces \cup DOMAIN collisions
          /\ n \notin killed
          /\ Daughters(n) = {})
  /\ [][ \A n \in raised :
           /\ n \in raised' =>
                /\ charge'[n] = charge[n]
                /\ mass'[n] = mass[n]
                /\ dynamics'[n] = dynamics[n]
                /\ physicality'[n] = physicality[n]
           /\ n \notin raised' =>
                /\ maintained' = maintained + 1
                /\ n \in alive' \cap Furnished' \cap DOMAIN collisions'
                /\ lifetime'[n] = 0 ]_vars

\* the split stage is about to start while a merge of this tick has queued
\* its deletes and created its entity
C21_Witness ==
  /\ CanRun("handle_splitting")
  /\ killed # {}
  /\ \E n \in raised : created[n].by = "merge"
  /\ \E e \in killed \cap DOMAIN lifetime \cap DOMAIN mass : SplitDue(e)

\* C22: no delete call of handle_collisions or handle_splitting fails.  Every
\* delete targets an entity that is alive in the tick, and the delete of an
\* entity that is already queued for deletion (a partner shared by two
\* merges, or an entity that a merge deleted and the split stage deletes
\* again) changes nothing and is no error: the run is never aborted.
C22_DeleteNeverFails ==
  /\ ~aborted
  /\ killed \subseteq alive \cup raised
  /\ Detected =>
       \A e \in DOMAIN collisions : Range(collisions[e]) \subseteq alive \cup raised

\* two merges of one tick have deleted the same partner, and the run goes on
C22_Witness ==
  /\ ~aborted
  /\ "handle_collisions" \in done
  /\ \E n1 \in DOMAIN created, n2 \in DOMAIN created :
       /\ n1 # n2
       /\ created[n1].by = "merge"
       /\ created[n2].by = "merge"
       /\ Range(created[n1].with) \cap Range(created[n2].with) # {}

\* the Forces storage that the two systems leave when they run one after the
\* other, electrostatics first, from empty maps
Sequential ==
  GravityLoop(Ordered(GravityJoin), 1,
    [f |-> ElectrostaticsLoop(Ordered(ElectrostaticsJoin), 1,
             [f |-> [e \in DOMAIN forces |-> EmptyMap], log |-> <<>>]).f,
     log |-> <<>>]).f

\* C23: the result of the force stage does not depend on the order or the
\* interleaving of gravity and electrostatics.  Whatever the interleaving of
\* their per-pair writes, once both have run every force map holds exactly
\* the gravity entries and the electrostatics entries that the systems write
\* when they run one after the other, and no step of one system changes or
\* removes an entry that is already written.
C23_ForceStageConfluent ==
  /\ []((ForcesDone /\ "handle_dynamics" \notin done) =>
          /\ forces = Sequential
          /\ \A i \in DOMAIN forces :
               DOMAIN forces[i] =
                 {<<kind, j>> : kind \in Kinds, j \in DOMAIN forces \ {i}})
  /\ [][ ("clear_forces" \in done /\ maintained' = maintained) =>
           \A i \in DOMAIN forces :
             \A key \in DOMAIN forces[i] :
               /\ key \in DOMAIN forces'[i]
               /\ forces'[i][key] = forces[i][key] ]_vars

\* both systems have run and a gravity write fell between two electrostatics
\* writes
C23_Witness ==
  /\ ForcesDone
  /\ \E a \in 1..Len(computed), b \in 1..Len(computed), c \in 1..Len(computed) :
       /\ a < b /\ b < c
       /\ computed[a][1] = "electrostatics"
       /\ computed[b][1] = "gravity"
       /\ computed[c][1] = "electrostatics"

\* C24: Lifetime counts the ticks an entity has existed.  It is 0 for every
\* seeded entity and for every entity created by a merge or a split when
\* maintain gives it its Lifetime, it grows by exactly 1 in the
\* update_lifetimes step of every tick that the entity starts alive, and no
\* other step changes it.
C24_LifetimeCounts ==
  /\ []((step = 1 /\ "update_lifetimes" \notin done) =>
          \A e \in alive : lifetime[e] = 0)
  /\ [](alive \subseteq DOMAIN lifetime)
  /\ []("update_lifetimes" \in done =>
          \A e \in alive : lifetime[e] >= 1 /\ lifetime[e] <= step)
  /\ [][ /\ \A e \in DOMAIN lifetime \cap DOMAIN lifetime' :
             lifetime'[e] =
               IF "update_lifetimes" \in done' /\ "update_lifetimes" \notin done
               THEN lifetime[e] + 1
               ELSE lifetime[e]
         /\ \A e \in DOMAIN lifetime' \ DOMAIN lifetime :
             /\ lifetime'[e] = 0
             /\ maintained' = maintained + 1
             /\ e \in DOMAIN created
         /\ ("update_lifetimes" \in done' /\ "update_lifetimes" \notin done) =>
              alive \subseteq DOMAIN lifetime' ]_vars

\* in the second tick an entity created by the first tick has lifetime 1
C24_Witness ==
  /\ maintained = 1
  /\ "update_lifetimes" \in done
  /\ Cardinality(alive) < nextId - 1
  /\ \E e \in alive : e = nextId - 1 /\ lifetime[e] = 1

\* the velocity and the position that handle_dynamics reaches for e before
\* it looks at the position limits
Unbounded(e) ==
  LET vel == Clamp(VecAdd(dynamics[e].velocity,
                          VecMulS(dynamics'[e].acceleration, res.DeltaTime)),
                   res.minimum_velocity, res.maximum_velocity)
  IN [velocity |-> vel,
      position |-> VecAdd(dynamics[e].position, VecMulS(vel, res.DeltaTime))]

\* the position taken around the universe: twice the maximum nearer the
\* origin, on the other side
Wrapped(pos) ==
  IF FGt(pos, Zero)
  THEN FSub(pos, FMul(I(2), res.maximum_position))
  ELSE FAdd(pos, FMul(I(2), res.maximum_position))

\* C25: handle_dynamics does not truncate the position.  A position that
\* leaves the universe re-enters from the opposite side, and the velocity of
\* the entity is the one it reached before the position was advanced.
C25_PositionWrapped ==
  [][ ("handle_dynamics" \in done' /\ "handle_dynamics" \notin done) =>
        \A e \in DOMAIN dynamics :
          FGt(Magnitude(Unbounded(e).position), res.maximum_position) =>
            /\ dynamics'[e].velocity = Unbounded(e).velocity
            /\ dynamics'[e].position = Wrapped(Unbounded(e).position) ]_vars

\* x lies within [lo, hi]
Within(x, lo, hi) == FLe(lo, x) /\ FLe(x, hi)

\* C26: an entity with zero net force and a nonzero velocity v whose
\* acceleration, velocity and advanced position stay within the limits keeps
\* v and advances by exactly v * dt in handle_dynamics.  In general, a
\* position that handle_dynamics leaves off the limits is the old position
\* plus dt times the velocity that the same step has produced.
C26_PositionFromNewVelocity ==
  [][ ("handle_dynamics" \in done' /\ "handle_dynamics" \notin done) =>
        \A e \in DOMAIN dynamics :
          /\ ( /\ e \in DOMAIN forces
               /\ NetForce(forces[e]) = Zero
               /\ dynamics[e].acceleration = Zero
               /\ dynamics[e].velocity # Zero
               /\ FLe(res.minimum_acceleration, Zero)
               /\ Within(Magnitude(dynamics[e].velocity),
                         res.minimum_velocity, res.maximum_velocity)
               /\ Within(Magnitude(VecAdd(dynamics[e].position,
                                          VecMulS(dynamics[e].velocity,
                                                  res.DeltaTime))),
                         res.minimum_position, res.maximum_position) )
              => /\ dynamics'[e].velocity = dynamics[e].velocity
                 /\ dynamics'[e].position =
                      VecAdd(dynamics[e].position,
                             VecMulS(dynamics[e].velocity, res.DeltaTime))
          /\ ( /\ ~IsNaN(dynamics'[e].position)
               /\ Magnitude(dynamics'[e].position) # res.minimum_position
               /\ Magnitude(dynamics'[e].position) # res.maximum_position )
              => dynamics'[e].position =
                   VecAdd(dynamics[e].position,
                          VecMulS(dynamics'[e].velocity, res.DeltaTime)) ]_vars

\* a lone body that started at 2 with velocity 1 and dt = 1/2 is at 5/2
C26_Witness ==
  /\ step = 1
  /\ "handle_dynamics" \in done
  /\ alive = {1}
  /\ NetForce(forces[1]) = Zero
  /\ dynamics[1].velocity = I(1)
  /\ dynamics[1].position = Flt(5, 2)

\* the entities that the merges of this tick have consumed: the processed
\* entity of each merge and its partners
Consumed ==
  UNION {{created[n].from} \cup Range(created[n].with) :
           n \in {x \in DOMAIN created : created[x].by = "merge"}}

\* C27: an entity that a merge of the tick has consumed is not split in the
\* same tick: handle_splitting creates no daughters from it.
C27_ConsumedNotSplit == \A e \in Consumed : Daughters(e) = {}

\* the entities that handle_collisions has created in this tick
MergedEntities == {n \in DOMAIN created : created[n].by = "merge"}

\* the merged entities that e has contributed its mass and charge to
HeirsOf(e) ==
  {n \in MergedEntities : e \in {created[n].from} \cup Range(created[n].with)}

\* C28: every entity that a merge of the tick has consumed has contributed to
\* exactly one merged entity, so the merged entities of the tick have the
\* total mass and the total charge of the entities that the merges deleted.
C28_ContributesOnce ==
  /\ \A e \in Consumed : Cardinality(HeirsOf(e)) = 1
  /\ Total(mass, MergedEntities) = Total(mass, Consumed)
  /\ Total(charge, MergedEntities) = Total(charge, Consumed)

\* the larger of the two lifetime bounds
LifetimeBound ==
  IF res.minimum_lifetime > res.maximum_lifetime
  THEN res.minimum_lifetime
  ELSE res.maximum_lifetime

\* C29: between two ticks no alive entity has a lifetime above both
\* minimum_lifetime and maximum_lifetime: handle_splitting splits and deletes
\* every entity whose incremented lifetime exceeds both in the tick in which
\* it first does, and maintain removes it.
C29_NoOverAged ==
  /\ done = {} =>
       \A e \in alive \cap DOMAIN lifetime : lifetime[e] <= LifetimeBound
  /\ "handle_splitting" \in done =>
       \A e \in alive \cap DOMAIN lifetime :
         lifetime[e] > LifetimeBound =>
           /\ lifetime[e] = LifetimeBound + 1
           /\ e \in killed
           /\ Cardinality(Daughters(e)) = 2

\* a light entity has outlived maximum_lifetime by one tick and has been split
C29_Witness ==
  /\ "handle_splitting" \in done
  /\ \E e \in alive \cap DOMAIN lifetime :
       /\ lifetime[e] = LifetimeBound + 1
       /\ FLt(FAbs(mass[e]), I(10))
       /\ e \in killed
       /\ Daughters(e) # {}

\* C30: handle_dynamics leaves every entity with a velocity magnitude within
\* [minimum_velocity, maximum_velocity] and a position magnitude within
\* [minimum_position, maximum_position], also when the position has hit the
\* maximum and the velocity was changed at the boundary.
C30_WithinLimits ==
  [][ ("handle_dynamics" \in done' /\ "handle_dynamics" \notin done) =>
        \A e \in DOMAIN dynamics :
          /\ Within(Magnitude(dynamics'[e].velocity),
                    res.minimum_velocity, res.maximum_velocity)
          /\ Within(Magnitude(dynamics'[e].position),
                    res.minimum_position, res.maximum_position) ]_vars

====
